---- MODULE Spec2Model ----
(***************************************************************************)
(* guardian_news: lambda_function.py.  lambda_handler fetches the last     *)
(* five days of Guardian search results, annotates every result with a     *)
(* Comprehend sentiment, and writes the batch as newline-delimited JSON    *)
(* to one fixed S3 object.                                                 *)
(*                                                                         *)
(* Python strings are sequences of characters; a character is a one-token  *)
(* TLA+ string.  Long literals of the source are kept as one token.        *)
(***************************************************************************)
EXTENDS Integers, Sequences, FiniteSets, TLC

VARIABLES
    pc,            \* "idle", "fetch", "write", "done": the handler before an invocation,
                   \* in its date loop, after the loop, after the invocation;
                   \* "call_fetch", "call_write", "returned": one function called on
                   \* its own
    event,         \* the invocation's event
    today,         \* datetime.utcnow() of the invocation, as <<year, month, day>>
    i,             \* loop index of range(5)
    response,      \* what requests.get gave for the last search request
    articles,      \* return value of the last fetch_guardian_news call
    all_articles,  \* the handler's accumulated list
    ret,           \* what the invocation gave back: an envelope, Raised, or Running
    s3,            \* the object at s3_bucket_name/s3_key
    requests,      \* search requests issued by this invocation (params of each)
    sentCalls,     \* texts passed to detect_sentiment by this invocation
    detected,      \* what the detect_sentiment calls of the last fetch did
    writerCalls,   \* arguments of the write_to_s3 calls of this invocation
    putCalls,      \* number of put_object calls of this invocation
    putFailed,     \* whether a put_object call of this invocation raised
    contrib,       \* per attempted date: the list it contributed (<<>> on failure)
    nFailed,       \* number of dates of this invocation whose fetch failed
    s3Before,      \* the object as it was when this invocation started
    lastOk         \* all_articles of the most recent invocation that returned 200

vars == <<pc, event, today, i, response, articles, all_articles, ret, s3,
          requests, sentCalls, detected, writerCalls, putCalls, putFailed,
          contrib, nFailed, s3Before, lastOk>>

----------------------------------------------------------------------------
(* Bounds of the model *)

\* most results the search API returns over one invocation's window
MaxBatch == 2
\* the same, where invocations follow one another
MaxBatchRuns == 1
\* longest article list handed to write_to_s3 when it is called on its own
MaxLen == 2
\* most results in the payload when fetch_guardian_news is called on its own
MaxResults == 2

(* Program constants *)

NumDays == 5
DefaultPageSize == 5

s3_bucket_name == "guardianews"
s3_key == "guardian-news.json"

----------------------------------------------------------------------------
(* Values *)

\* Python's None, where a string is expected
NoneVal == <<"<None>">>

NL == "\n"
QUOTE == "\""
BACKSLASH == "\\"

Min(a, b) == IF a <= b THEN a ELSE b

RECURSIVE Flatten(_)
Flatten(ss) == IF ss = <<>> THEN <<>> ELSE Head(ss) \o Flatten(Tail(ss))

\* A dict is the sequence of its <<key, value>> pairs, in insertion order.
DictHas(d, key) == \E k \in 1..Len(d) : d[k][1] = key

DictGet(d, key, default) ==
    IF DictHas(d, key)
    THEN d[CHOOSE k \in 1..Len(d) : d[k][1] = key][2]
    ELSE default

\* mutant: only None is refused ("if api_key is None")
Truthy_NoneOnly(v) == v # NoneVal

\* Python truthiness of a string-or-None: None and "" are falsy
Truthy(v) == v # NoneVal /\ v # <<>>

----------------------------------------------------------------------------
(* Calendar: today - timedelta(days=n), and strftime("%Y-%m-%d") *)

IsLeap(y) == (y % 4 = 0 /\ y % 100 # 0) \/ y % 400 = 0

DaysInMonth(y, m) ==
    IF m = 2 THEN (IF IsLeap(y) THEN 29 ELSE 28)
    ELSE IF m \in {4, 6, 9, 11} THEN 30 ELSE 31

PrevDay(d) ==
    IF d[3] > 1 THEN <<d[1], d[2], d[3] - 1>>
    ELSE IF d[2] > 1 THEN <<d[1], d[2] - 1, DaysInMonth(d[1], d[2] - 1)>>
    ELSE <<d[1] - 1, 12, 31>>

RECURSIVE MinusDays(_, _)
MinusDays(d, n) == IF n = 0 THEN d ELSE MinusDays(PrevDay(d), n - 1)

DigitChars == <<"0", "1", "2", "3", "4", "5", "6", "7", "8", "9">>

Digit(n) == DigitChars[n + 1]

Pad2(n) == <<Digit(n \div 10), Digit(n % 10)>>

Pad4(n) ==
    <<Digit(n \div 1000), Digit((n \div 100) % 10), Digit((n \div 10) % 10), Digit(n % 10)>>

Strftime(d) == Pad4(d[1]) \o <<"-">> \o Pad2(d[2]) \o <<"-">> \o Pad2(d[3])

\* mutant: "timedelta(days=i + 1)"
TargetDate_OffByOne(td, k) == Strftime(MinusDays(td, k + 1))

\* line 141
TargetDate(td, k) == Strftime(MinusDays(td, k))

----------------------------------------------------------------------------
(* json.dumps, "\n".join and str.split *)

EscapeChar(c) ==
    IF c = NL THEN <<BACKSLASH, "n">>
    ELSE IF c = QUOTE THEN <<BACKSLASH, QUOTE>>
    ELSE IF c = BACKSLASH THEN <<BACKSLASH, BACKSLASH>>
    ELSE <<c>>

JsonString(str) ==
    <<QUOTE>> \o Flatten([k \in 1..Len(str) |-> EscapeChar(str[k])]) \o <<QUOTE>>

\* sep.join(parts)
RECURSIVE Join(_, _)
Join(parts, sep) ==
    IF parts = <<>> THEN <<>>
    ELSE IF Len(parts) = 1 THEN parts[1]
    ELSE parts[1] \o sep \o Join(Tail(parts), sep)

\* a JSON object from <<key, rendered value>> members, json.dumps' default separators
JsonObject(members) ==
    <<"{">>
    \o Join([k \in 1..Len(members) |->
                JsonString(<<members[k][1]>>) \o <<":", " ">> \o members[k][2]],
            <<",", " ">>)
    \o <<"}">>

\* a dict of floats, such as Comprehend's SentimentScore
JsonNumberDict(d) == JsonObject([k \in 1..Len(d) |-> <<d[k][1], d[k][2]>>])

\* a dict of strings, such as {"error": ...}
JsonStringDict(d) == JsonObject([k \in 1..Len(d) |-> <<d[k][1], JsonString(d[k][2])>>])

JsonDumpsArticle(a) ==
    JsonObject(<< <<"headline", JsonString(a.headline)>>,
                  <<"summary", JsonString(a.summary)>>,
                  <<"url", JsonString(a.url)>>,
                  <<"sentiment", JsonString(a.sentiment)>>,
                  <<"sentiment_scores", JsonNumberDict(a.sentiment_scores)>>,
                  <<"publication_date", JsonString(a.publication_date)>> >>)

----------------------------------------------------------------------------
(* Amazon Comprehend: detect_sentiment and analyze_sentiment_with_comprehend *)

LabelOrder == <<"POSITIVE", "NEGATIVE", "NEUTRAL", "MIXED">>
ScoreKeys == <<"Positive", "Negative", "Neutral", "Mixed">>

\* the service's fixed category set
Labels == {LabelOrder[k] : k \in 1..Len(LabelOrder)}

\* the label the handler's runs see from the service
HandlerLabels == {"NEUTRAL"}

ErrorLabel == <<"ERROR">>

SentimentScore(label) ==
    [k \in 1..Len(ScoreKeys) |->
        <<ScoreKeys[k],
          IF LabelOrder[k] = label THEN <<"0", ".", "9", "7">> ELSE <<"0", ".", "0", "1">> >>]

\* what one detect_sentiment call can do: raise, or answer with a label and scores
DetectRaises == [raised |-> TRUE, Sentiment |-> <<>>, SentimentScore |-> <<>>]

DetectAnswers(label) ==
    [raised |-> FALSE, Sentiment |-> <<label>>, SentimentScore |-> SentimentScore(label)]

DetectOutcomes(labels) == {DetectRaises} \cup {DetectAnswers(l) : l \in labels}

\* mutant: no try/except around detect_sentiment
analyze_sentiment_NoExcept(text, outcome) ==
    [raised |-> outcome.raised, sentiment |-> outcome.Sentiment,
     sentiment_scores |-> outcome.SentimentScore]

\* raised: whether the exception leaves the function (the except clause takes all)
analyze_sentiment_with_comprehend(text, outcome) ==
    IF outcome.raised
    THEN [raised |-> FALSE, sentiment |-> ErrorLabel, sentiment_scores |-> <<>>]
    ELSE [raised |-> FALSE, sentiment |-> outcome.Sentiment,
          sentiment_scores |-> outcome.SentimentScore]

----------------------------------------------------------------------------
(* The Guardian search API: what requests.get can give for one request *)

\* requests.get raised; every exception it raises is a RequestException
TransportError ==
    [exc |-> TRUE, isRequestException |-> TRUE, status_code |-> 0, data |-> <<>>,
     msg |-> <<"ConnectionError">>]

\* an HTTP error status: raise_for_status raises HTTPError, a RequestException
HttpError ==
    [exc |-> FALSE, isRequestException |-> TRUE, status_code |-> 500, data |-> <<>>,
     msg |-> <<"500 Server Error">>]

Http200(payload) ==
    [exc |-> FALSE, isRequestException |-> TRUE, status_code |-> 200,
     data |-> << <<"response", payload>> >>, msg |-> <<>>]

ApiErrorWithMessage ==
    Http200(<< <<"status", <<"error">> >>, <<"message", <<"Invalid date">> >> >>)

ApiErrorNoMessage == Http200(<< <<"status", <<"error">> >> >>)

OkResponse(results) == Http200(<< <<"status", <<"ok">> >>, <<"results", results>> >>)

FailedResponses == {TransportError, HttpError, ApiErrorWithMessage, ApiErrorNoMessage}

\* the "fields" of a result: with a trailText, or without one
NoTrailText == <<>>
WithTrailText(text) == << <<"trailText", text>> >>

TrailTexts == {<<"a">>, <<"a", NL, "b">>, <<QUOTE, "a", BACKSLASH>>}

AnyFields == {NoTrailText} \cup {WithTrailText(t) : t \in TrailTexts}

\* the results the handler's runs see: the first of a day has a two-line trailText,
\* the others have none
HandlerFields(k) == IF k = 1 THEN {WithTrailText(<<"a", NL, "b">>)} ELSE {NoTrailText}

\* the fields the k-th result of a payload can have; kind is "any" or "handler"
FieldChoices(kind, k) == IF kind = "any" THEN AnyFields ELSE HandlerFields(k)

ResultItem(date, k, fields) ==
    << <<"webTitle", <<"title ">> \o date \o <<"#", Digit(k)>> >>,
       <<"fields", fields>>,
       <<"webUrl", <<"https://www.theguardian.com/">> \o date \o <<"/", Digit(k)>> >>,
       <<"webPublicationDate", date \o <<"T", "09:00:00Z">> >> >>

ResultLists(date, n, kind) ==
    IF n = 0 THEN {<<>>}
    ELSE LET choices == UNION {FieldChoices(kind, k) : k \in 1..n}
         IN {[k \in 1..n |-> ResultItem(date, k, f[k])] :
                f \in {g \in [1..n -> choices] : \A k \in 1..n : g[k] \in FieldChoices(kind, k)}}

SearchResponses(date, maxN, kind) ==
    FailedResponses
    \cup {OkResponse(rs) : rs \in UNION {ResultLists(date, n, kind) : n \in 0..maxN}}

----------------------------------------------------------------------------
(* fetch_guardian_news *)

SearchParams(api_key, query, page_size, from_date) ==
    [api_key |-> api_key, q |-> query, page_size |-> page_size,
     show_fields |-> "trailText", from_date |-> from_date, to_date |-> from_date]

\* the body of the try block got as far as data["response"]["status"] == "ok"
PayloadOk(resp) ==
    /\ ~resp.exc
    /\ resp.status_code < 400
    /\ DictGet(DictGet(resp.data, "response", <<>>), "status", <<>>) = <<"ok">>

Results(resp) == DictGet(DictGet(resp.data, "response", <<>>), "results", <<>>)

Summary(result) ==
    DictGet(DictGet(result, "fields", <<>>), "trailText", <<"No summary available">>)

\* the texts fetch_guardian_news hands to analyze_sentiment_with_comprehend, in order
SentimentTexts(resp) ==
    IF PayloadOk(resp)
    THEN [k \in 1..Len(Results(resp)) |-> Summary(Results(resp)[k])]
    ELSE <<>>

FetchList(list) == [raised |-> FALSE, isList |-> TRUE, list |-> list, error |-> <<>>]

FetchErrorDict(kind, message) ==
    [raised |-> FALSE, isList |-> FALSE, list |-> <<>>,
     error |-> << <<"error", <<kind>> >>, <<"message", message>> >>]

FetchRaises == [raised |-> TRUE, isList |-> FALSE, list |-> <<>>, error |-> <<>>]

\* resp: what requests.get(url, params) gave; outcomes: what each detect_sentiment
\* call made on the way does
fetch_guardian_news(resp, outcomes) ==
    IF resp.exc \/ resp.status_code >= 400
    THEN IF resp.isRequestException
         THEN FetchErrorDict("RequestException", resp.msg)
         ELSE FetchRaises
    ELSE IF PayloadOk(resp)
    THEN LET results == Results(resp)
             sentiment_data(k) ==
                 analyze_sentiment_with_comprehend(Summary(results[k]), outcomes[k])
         IN IF \E k \in 1..Len(results) : sentiment_data(k).raised
            THEN FetchRaises
            ELSE
            FetchList([k \in 1..Len(results) |->
                [headline |-> DictGet(results[k], "webTitle", <<>>),
                 summary |-> Summary(results[k]),
                 url |-> DictGet(results[k], "webUrl", <<>>),
                 sentiment |-> sentiment_data(k).sentiment,
                 sentiment_scores |-> sentiment_data(k).sentiment_scores,
                 publication_date |-> DictGet(results[k], "webPublicationDate", <<>>)]])
    ELSE FetchErrorDict("API response error",
                        DictGet(DictGet(resp.data, "response", <<>>), "message",
                                <<"Unknown error">>))

----------------------------------------------------------------------------
(* write_to_s3 *)

NoObject == [exists |-> FALSE, Body |-> <<>>, ContentType |-> ""]

\* mutant: json.dumps(articles), one array of objects as the comment of line 98 says
json_lines_Array(arts) ==
    <<"[">> \o Join([k \in 1..Len(arts) |-> JsonDumpsArticle(arts[k])], <<",", " ">>) \o <<"]">>

json_lines(arts) == Join([k \in 1..Len(arts) |-> JsonDumpsArticle(arts[k])], <<NL>>)

\* mutant: the body is added to what the object holds
put_object_Append(object, body, contentType) ==
    [exists |-> TRUE,
     Body |-> IF object.exists THEN object.Body \o <<NL>> \o body ELSE body,
     ContentType |-> contentType]

\* s3_client.put_object(Bucket, Key, Body, ContentType) replaces the object
put_object(object, body, contentType) ==
    [exists |-> TRUE, Body |-> body, ContentType |-> contentType]

\* mutant: the except clause does not raise again
write_to_s3_Swallow(object, arts, putRaises) ==
    [raised |-> FALSE,
     object |-> IF putRaises THEN object
                ELSE put_object(object, json_lines(arts), "application/json")]

\* putRaises: whether put_object raises; a put that raises leaves the object as it was
write_to_s3(object, arts, putRaises) ==
    [raised |-> putRaises,
     object |-> IF putRaises THEN object
                ELSE put_object(object, json_lines(arts), "application/json")]

----------------------------------------------------------------------------
(* lambda_handler *)

Events ==
    { <<>>,
      << <<"api_key", <<>> >> >>,
      << <<"api_key", <<"k">> >> >>,
      << <<"api_key", <<"k">> >>, <<"query", <<"climate">> >>, <<"page_size", 1>> >> }

\* utcnow() dates whose five-day window crosses a leap February and a new year
Todays == { <<2024, 3, 2>>, <<2024, 1, 3>> }

NoDate == <<0, 0, 0>>
NoResponse == [exc |-> FALSE, isRequestException |-> FALSE, status_code |-> 0,
               data |-> <<>>, msg |-> <<>>]
NoResult == FetchList(<<>>)

Running == [kind |-> "running", statusCode |-> 0, body |-> <<>>]
RaisedOut == [kind |-> "raised", statusCode |-> 0, body |-> <<>>]
Envelope(code, body) == [kind |-> "returned", statusCode |-> code, body |-> body]

ApiKeyRequired ==
    Envelope(400, JsonStringDict(<< <<"error", <<"API key is required">> >> >>))

NoArticlesFetched ==
    Envelope(500, JsonStringDict(<< <<"error", <<"No articles fetched">> >> >>))

DataWritten ==
    Envelope(200, <<"Data written to S3: s3://", s3_bucket_name, "/", s3_key>>)

\* mutant: a failed date empties the overall list
Accumulate_ResetOnError(all, fetched) == IF fetched.isList THEN all \o fetched.list ELSE <<>>

\* mutant: the overall list is replaced, not extended
Accumulate_Replace(all, fetched) == IF fetched.isList THEN fetched.list ELSE all

\* lines 147-150: a list is added to the overall list, anything else is only printed
Accumulate(all, fetched) == IF fetched.isList THEN all \o fetched.list ELSE all

\* mutant: "if len(all_articles) > 1:"
ShouldWrite_MoreThanOne(all) == Len(all) > 1

\* mutant: the batch is written whether or not it is empty
ShouldWrite_Always(all) == TRUE

\* line 152: "if all_articles:"
ShouldWrite(all) == all # <<>>

\* mutant: the write block sits inside the loop
AfterPass_WriteInLoop(k) == "write"

\* line 140: after pass k of "for i in range(5)" (k = 1..5) the loop goes on or is over
AfterPass(k) == IF k < NumDays THEN "fetch" ELSE "write"

\* lines 125-136: read the event, refuse a missing key, else start the date loop
lambda_handler(ev, now) ==
    /\ event' = ev
    /\ requests' = <<>>
    /\ sentCalls' = <<>>
    /\ detected' = <<>>
    /\ writerCalls' = <<>>
    /\ putCalls' = 0
    /\ putFailed' = FALSE
    /\ contrib' = <<>>
    /\ nFailed' = 0
    /\ s3Before' = s3
    /\ i' = 0
    /\ response' = NoResponse
    /\ articles' = NoResult
    /\ all_articles' = <<>>
    /\ IF ~Truthy(DictGet(ev, "api_key", NoneVal))
       THEN /\ ret' = ApiKeyRequired
            /\ pc' = "done"
            /\ today' = NoDate
       ELSE /\ ret' = Running
            /\ pc' = "fetch"
            /\ today' = now
    /\ UNCHANGED <<s3, lastOk>>

\* the first invocation
Invoke(ev, now) ==
    /\ pc = "idle"
    /\ lambda_handler(ev, now)

\* the scheduler invokes the function again, once the invocation before has ended
InvokeAgain(ev, now) ==
    /\ pc = "done"
    /\ lambda_handler(ev, now)

\* lines 140-150: one pass of the loop over range(5); maxBatch bounds the results
\* the search API gives over the window
FetchDay(maxBatch) ==
    /\ pc = "fetch"
    /\ LET api_key == DictGet(event, "api_key", NoneVal)
           query == DictGet(event, "query", <<"latest">>)
           page_size == DictGet(event, "page_size", DefaultPageSize)
           target_date == TargetDate(today, i)
       IN \E resp \in SearchResponses(target_date,
                                      Min(page_size, maxBatch - Len(all_articles)),
                                      "handler") :
          \E outcomes \in [1..Len(SentimentTexts(resp)) -> DetectOutcomes(HandlerLabels)] :
             LET fetched == fetch_guardian_news(resp, outcomes)
             IN /\ requests' = Append(requests,
                                      SearchParams(api_key, query, page_size, target_date))
                /\ response' = resp
                /\ sentCalls' = sentCalls \o SentimentTexts(resp)
                /\ detected' = outcomes
                /\ articles' = fetched
                /\ IF fetched.raised
                   THEN /\ ret' = RaisedOut
                        /\ pc' = "done"
                        /\ UNCHANGED <<all_articles, contrib, nFailed, i>>
                   ELSE /\ all_articles' = Accumulate(all_articles, fetched)
                        /\ contrib' = Append(contrib, fetched.list)
                        /\ nFailed' = IF fetched.isList THEN nFailed ELSE nFailed + 1
                        /\ i' = i + 1
                        /\ pc' = AfterPass(i + 1)
                        /\ ret' = ret
    /\ UNCHANGED <<event, today, s3, writerCalls, putCalls, putFailed, s3Before, lastOk>>

\* lines 152-158: the batch is not empty: write it, then return 200
WriteBatch ==
    /\ pc = "write"
    /\ ShouldWrite(all_articles)
    /\ \E putRaises \in BOOLEAN :
          LET written == write_to_s3(s3, all_articles, putRaises)
          IN /\ writerCalls' = Append(writerCalls, all_articles)
             /\ putCalls' = putCalls + 1
             /\ putFailed' = putRaises
             /\ s3' = written.object
             /\ IF written.raised
                THEN /\ ret' = RaisedOut
                     /\ lastOk' = lastOk
                ELSE /\ ret' = DataWritten
                     /\ lastOk' = all_articles
    /\ pc' = "done"
    /\ UNCHANGED <<event, today, i, response, articles, all_articles, requests,
                   sentCalls, detected, contrib, nFailed, s3Before>>

\* lines 159-163: the batch is empty: return 500
NoArticles ==
    /\ pc = "write"
    /\ ~ShouldWrite(all_articles)
    /\ ret' = NoArticlesFetched
    /\ pc' = "done"
    /\ UNCHANGED <<event, today, i, response, articles, all_articles, s3, requests,
                   sentCalls, detected, writerCalls, putCalls, putFailed, contrib,
                   nFailed, s3Before, lastOk>>

\* an object an earlier invocation left at the key
EarlierBatch ==
    fetch_guardian_news(
        OkResponse(<<ResultItem(Strftime(<<2023, 12, 25>>), 1, NoTrailText)>>),
        <<DetectAnswers("MIXED")>>).list

\* before the invocation: the key is empty, or holds an earlier invocation's batch
Init ==
    /\ pc = "idle"
    /\ event = <<>>
    /\ today = NoDate
    /\ i = 0
    /\ response = NoResponse
    /\ articles = NoResult
    /\ all_articles = <<>>
    /\ ret = Running
    /\ \E earlier \in {<<>>, EarlierBatch} :
          /\ lastOk = earlier
          /\ s3 = IF earlier = <<>> THEN NoObject
                  ELSE write_to_s3(NoObject, earlier, FALSE).object
    /\ requests = <<>>
    /\ sentCalls = <<>>
    /\ detected = <<>>
    /\ writerCalls = <<>>
    /\ putCalls = 0
    /\ putFailed = FALSE
    /\ contrib = <<>>
    /\ nFailed = 0
    /\ s3Before = s3

\* one invocation of lambda_handler
Next ==
    \/ \E ev \in Events : \E now \in Todays : Invoke(ev, now)
    \/ FetchDay(MaxBatch)
    \/ WriteBatch
    \/ NoArticles

Spec == Init /\ [][Next]_vars

\* invocations one after another, on one day
RunsEvents == { <<>>, << <<"api_key", <<"k">> >> >> }

RunsToday == <<2024, 3, 2>>

InitRuns == Init /\ s3 = NoObject

NextRuns ==
    \/ \E ev \in RunsEvents : Invoke(ev, RunsToday)
    \/ \E ev \in RunsEvents : InvokeAgain(ev, RunsToday)
    \/ FetchDay(MaxBatchRuns)
    \/ WriteBatch
    \/ NoArticles

SpecRuns == InitRuns /\ [][NextRuns]_vars

----------------------------------------------------------------------------
(* fetch_guardian_news called on its own: the arguments and the response the search
   API is about to give are drawn at the start *)

CallDates == {Strftime(<<2024, 2, 29>>), Strftime(<<2023, 12, 31>>)}

CallArgs(date) ==
    << <<"api_key", <<"k">> >>, <<"query", <<"latest">> >>,
       <<"page_size", DefaultPageSize>>, <<"from_date", date>> >>

InitFetch ==
    /\ pc = "call_fetch"
    /\ \E date \in CallDates :
          /\ event = CallArgs(date)
          /\ response \in SearchResponses(date, Min(DefaultPageSize, MaxResults), "any")
    /\ today = NoDate
    /\ i = 0
    /\ articles = NoResult
    /\ all_articles = <<>>
    /\ ret = Running
    /\ s3 = NoObject
    /\ requests = <<>>
    /\ sentCalls = <<>>
    /\ detected = <<>>
    /\ writerCalls = <<>>
    /\ putCalls = 0
    /\ putFailed = FALSE
    /\ contrib = <<>>
    /\ nFailed = 0
    /\ s3Before = NoObject
    /\ lastOk = <<>>

FetchCall ==
    /\ pc = "call_fetch"
    /\ \E outcomes \in [1..Len(SentimentTexts(response)) -> DetectOutcomes(Labels)] :
          /\ requests' = <<SearchParams(DictGet(event, "api_key", NoneVal),
                                        DictGet(event, "query", <<>>),
                                        DictGet(event, "page_size", 0),
                                        DictGet(event, "from_date", <<>>))>>
          /\ sentCalls' = SentimentTexts(response)
          /\ detected' = outcomes
          /\ articles' = fetch_guardian_news(response, outcomes)
    /\ pc' = "returned"
    /\ UNCHANGED <<event, today, i, response, all_articles, ret, s3, writerCalls,
                   putCalls, putFailed, contrib, nFailed, s3Before, lastOk>>

SpecFetch == InitFetch /\ [][FetchCall]_vars

----------------------------------------------------------------------------
(* write_to_s3 called on its own, with a list of articles fetch_guardian_news can
   return *)

ArticlePool ==
    UNION { { fetch_guardian_news(OkResponse(<<ResultItem(date, 1, f)>>), <<o>>).list[1] :
                f \in AnyFields } :
            o \in DetectOutcomes(Labels), date \in {Strftime(<<2024, 2, 29>>)} }

ArticleLists == UNION {[1..n -> ArticlePool] : n \in 1..MaxLen}

InitWrite ==
    /\ pc = "call_write"
    /\ all_articles \in ArticleLists
    /\ \E earlier \in {<<>>, EarlierBatch} :
          /\ lastOk = earlier
          /\ s3 = IF earlier = <<>> THEN NoObject
                  ELSE write_to_s3(NoObject, earlier, FALSE).object
    /\ event = <<>>
    /\ today = NoDate
    /\ i = 0
    /\ response = NoResponse
    /\ articles = NoResult
    /\ ret = Running
    /\ requests = <<>>
    /\ sentCalls = <<>>
    /\ detected = <<>>
    /\ writerCalls = <<>>
    /\ putCalls = 0
    /\ putFailed = FALSE
    /\ contrib = <<>>
    /\ nFailed = 0
    /\ s3Before = s3

WriteCall ==
    /\ pc = "call_write"
    /\ \E putRaises \in BOOLEAN :
          LET written == write_to_s3(s3, all_articles, putRaises)
          IN /\ writerCalls' = <<all_articles>>
             /\ putCalls' = 1
             /\ putFailed' = putRaises
             /\ s3' = written.object
             /\ ret' = IF written.raised THEN RaisedOut ELSE Running
    /\ pc' = "returned"
    /\ UNCHANGED <<event, today, i, response, articles, all_articles, requests,
                   sentCalls, detected, contrib, nFailed, s3Before, lastOk>>

SpecWrite == InitWrite /\ [][WriteCall]_vars

----------------------------------------------------------------------------
(* Properties *)

HasKey == DictHas(event, "api_key") /\ DictGet(event, "api_key", NoneVal) # <<>>

Returned(code) == ret.kind = "returned" /\ ret.statusCode = code

\* the body json.dumps({"error": message}) gives
ErrorBody(message) ==
    <<"{", QUOTE, "error", QUOTE, ":", " ", QUOTE, message, QUOTE, "}">>

\* C1: an invocation whose event has no api_key, or an empty one, ends at once with
\* statusCode 400 and the body {"error": "API key is required"}; it issues no search
\* request, no detect_sentiment call and no put_object, and the object stays as it was.
C1_MissingKey ==
    (pc # "idle" /\ ~HasKey) =>
        /\ pc = "done"
        /\ ret.kind = "returned"
        /\ ret.statusCode = 400
        /\ ret.body = ErrorBody("API key is required")
        /\ requests = <<>>
        /\ sentCalls = <<>>
        /\ writerCalls = <<>>
        /\ putCalls = 0
        /\ s3 = s3Before

\* an empty api_key was refused while an earlier batch sits at the key
C1_Witness ==
    /\ pc = "done"
    /\ DictHas(event, "api_key")
    /\ ~HasKey
    /\ Returned(400)
    /\ s3.exists

\* C2: once the date loop is over the invocation returns 500 exactly when nothing was
\* accumulated over the five dates; no other invocation returns 500.
C2_Status500 ==
    /\ (pc = "done" /\ i = 5) => (Returned(500) <=> Len(Flatten(contrib)) = 0)
    /\ (pc = "done" /\ i = 5) => (Returned(500) <=> all_articles = <<>>)
    /\ Returned(500) => (pc = "done" /\ i = 5 /\ ret.body = ErrorBody("No articles fetched"))

\* 500 after a window in which some dates failed and the others had no results
C2_Witness ==
    /\ pc = "done"
    /\ Returned(500)
    /\ nFailed \in 1..4

\* C3 as stated: an invocation in which dates failed ends with statusCode 200 whenever
\* another date contributed an article.
C3_Original ==
    (pc = "done" /\ HasKey /\ nFailed > 0 /\ Len(Flatten(contrib)) > 0) => Returned(200)

\* a pass of the loop whose search request failed
C3_FailedStep ==
    (pc = "fetch" /\ requests' # requests /\ ~PayloadOk(response')) =>
        /\ ~articles'.isList
        /\ all_articles' = all_articles
        /\ contrib' = Append(contrib, <<>>)
        /\ i' = i + 1
        /\ pc' = IF i = 4 THEN "write" ELSE "fetch"
        /\ ret'.kind = "running"

\* the end of an invocation in which dates failed and the upload did not
C3_FailedRun ==
    (pc = "done" /\ HasKey /\ nFailed > 0 /\ Len(Flatten(contrib)) > 0 /\ ~putFailed) =>
        /\ Returned(200)
        /\ Len(requests) = 5
        /\ all_articles = Flatten(contrib)

\* C3, amended: a date whose fetch fails (the request raises, an HTTP error status, or a
\* payload whose status is not ok) contributes nothing and changes nothing accumulated
\* so far; the loop goes on to the next date; and an invocation in which dates failed
\* returns 200, after five requests, when any date contributed an article and the
\* upload did not fail.
C3_Isolation == [][C3_FailedStep]_vars /\ []C3_FailedRun

\* four dates failed, one contributed, and the invocation returned 200
C3_Witness ==
    /\ pc = "done"
    /\ nFailed = 4
    /\ Returned(200)
    /\ Len(all_articles) > 0

\* C4: write_to_s3 is called at most once in an invocation, only after all five dates
\* were attempted and with everything they contributed; once the loop is over it has
\* been called exactly once if that is not empty and not at all if it is.
C4_WriterOnce ==
    /\ Len(writerCalls) <= 1
    /\ putCalls = Len(writerCalls)
    /\ writerCalls # <<>> =>
          /\ Len(requests) = 5
          /\ Len(contrib) = 5
          /\ writerCalls[1] = Flatten(contrib)
    /\ pc # "done" => writerCalls = <<>>
    /\ (pc = "done" /\ HasKey) => (Len(writerCalls) = 1 <=> Len(Flatten(contrib)) > 0)
    /\ (pc = "done" /\ ~HasKey) => writerCalls = <<>>

\* the writer was called with a batch that two different dates contributed to
C4_Witness ==
    /\ pc = "done"
    /\ Len(writerCalls) = 1
    /\ Len(writerCalls[1]) = 2
    /\ \E j, k \in 1..5 : j # k /\ contrib[j] # <<>> /\ contrib[k] # <<>>

\* str.split(sep) for a one-character separator
RECURSIVE Split(_, _)
Split(str, sep) ==
    IF \A k \in 1..Len(str) : str[k] # sep THEN <<str>>
    ELSE LET at == CHOOSE k \in 1..Len(str) :
                       str[k] = sep /\ \A j \in 1..(k - 1) : str[j] # sep
         IN <<SubSeq(str, 1, at - 1)>> \o Split(SubSeq(str, at + 1, Len(str)), sep)

\* the records of a newline-delimited body
Lines(body) == Split(body, NL)

C7_FetchAnnotates ==
    (pc = "returned" /\ PayloadOk(response)) =>
        LET results == Results(response)
        IN /\ ~articles.raised
           /\ articles.isList
           /\ Len(articles.list) = Len(results)
           /\ Len(sentCalls) = Len(results)
           /\ Len(detected) = Len(results)
           /\ \A k \in 1..Len(results) :
                 LET a == articles.list[k]
                 IN /\ a.headline = DictGet(results[k], "webTitle", <<>>)
                    /\ a.url = DictGet(results[k], "webUrl", <<>>)
                    /\ a.publication_date = DictGet(results[k], "webPublicationDate", <<>>)
                    /\ a.summary =
                          IF DictHas(DictGet(results[k], "fields", <<>>), "trailText")
                          THEN DictGet(DictGet(results[k], "fields", <<>>), "trailText", <<>>)
                          ELSE <<"No summary available">>
                    /\ sentCalls[k] = a.summary
                    /\ a.sentiment \in {<<"POSITIVE">>, <<"NEGATIVE">>, <<"NEUTRAL">>,
                                        <<"MIXED">>, <<"ERROR">>}
                    /\ detected[k].raised =>
                          (a.sentiment = <<"ERROR">> /\ a.sentiment_scores = <<>>)
                    /\ ~detected[k].raised =>
                          /\ a.sentiment = detected[k].Sentiment
                          /\ a.sentiment_scores = detected[k].SentimentScore

\* two results, the first without a trailText: its detect_sentiment call raised, the
\* second's answered
C7_Witness ==
    /\ pc = "returned"
    /\ PayloadOk(response)
    /\ Len(articles.list) = 2
    /\ articles.list[1].summary = <<"No summary available">>
    /\ detected[1].raised
    /\ articles.list[1].sentiment = <<"ERROR">>
    /\ articles.list[2].sentiment = <<"NEGATIVE">>

ExpectedWindow(now) ==
    IF now = <<2024, 3, 2>>
    THEN << <<"2", "0", "2", "4", "-", "0", "3", "-", "0", "2">>,
            <<"2", "0", "2", "4", "-", "0", "3", "-", "0", "1">>,
            <<"2", "0", "2", "4", "-", "0", "2", "-", "2", "9">>,
            <<"2", "0", "2", "4", "-", "0", "2", "-", "2", "8">>,
            <<"2", "0", "2", "4", "-", "0", "2", "-", "2", "7">> >>
    ELSE << <<"2", "0", "2", "4", "-", "0", "1", "-", "0", "3">>,
            <<"2", "0", "2", "4", "-", "0", "1", "-", "0", "2">>,
            <<"2", "0", "2", "4", "-", "0", "1", "-", "0", "1">>,
            <<"2", "0", "2", "3", "-", "1", "2", "-", "3", "1">>,
            <<"2", "0", "2", "3", "-", "1", "2", "-", "3", "0">> >>

\* C9: an invocation with an api_key issues one search request per pass and five in
\* all, whatever fails: the k-th is for the day k-1 days before today, with from-date
\* equal to to-date and the event's key, query and page size (or "latest" and 5); and
\* what is accumulated is the dates' lists one after another in that order.
C9_FiveDates ==
    HasKey =>
        /\ pc \in {"fetch", "write"} => Len(requests) = i
        /\ pc \in {"write", "done"} => Len(requests) = 5
        /\ Len(contrib) = Len(requests)
        /\ \A k \in 1..Len(requests) :
              /\ requests[k].from_date = ExpectedWindow(today)[k]
              /\ requests[k].to_date = requests[k].from_date
              /\ requests[k].api_key = DictGet(event, "api_key", <<>>)
              /\ requests[k].q = DictGet(event, "query", <<"latest">>)
              /\ requests[k].page_size = DictGet(event, "page_size", 5)
              /\ requests[k].show_fields = "trailText"
              /\ \A j \in 1..Len(contrib[k]) :
                    SubSeq(contrib[k][j].publication_date, 1, 10) = ExpectedWindow(today)[k]
        /\ all_articles = Flatten(contrib)

\* five requests over the new year, three of them failed, and the two articles of the
\* batch are from different days
C9_Witness ==
    /\ pc = "done"
    /\ today = <<2024, 1, 3>>
    /\ Len(requests) = 5
    /\ nFailed = 3
    /\ Len(all_articles) = 2
    /\ all_articles[1].publication_date # all_articles[2].publication_date

\* the number of records of the object at the key
ObjectCount == IF s3.exists THEN Len(Lines(s3.Body)) ELSE 0

\* C6 as stated: after every invocation with an api_key that returned, the object
\* holds that invocation's output, so it has as many records as that invocation
\* accumulated.
C6_Original ==
    (pc = "done" /\ HasKey /\ ret.kind = "returned") => ObjectCount = Len(all_articles)

\* C6, amended: the object holds the output of the latest invocation that returned 200
\* and nothing else: it has that batch's records, one line each, whatever was there
\* before; it is absent if no invocation returned 200; and an invocation that returns
\* 200 leaves exactly its own batch there.
C6_LatestWrittenRun ==
    LET records == IF s3.exists THEN Lines(s3.Body) ELSE <<>>
    IN /\ Len(records) = Len(lastOk)
       /\ \A k \in 1..Len(lastOk) : records[k] = JsonDumpsArticle(lastOk[k])
       /\ s3.exists <=> lastOk # <<>>
       /\ (pc = "done" /\ Returned(200)) => (all_articles # <<>> /\ lastOk = all_articles)

\* an invocation returned 200 over the different batch of an earlier one
C6_Witness ==
    /\ pc = "done"
    /\ Returned(200)
    /\ s3Before.exists
    /\ s3Before # s3
    /\ ObjectCount = 1

\* C10: an invocation that returns 400 or 500 makes no put_object call and leaves the
\* object as it found it; so the object is always the one the latest invocation that
\* returned 200 wrote, and there is none if no invocation did.
C10_ErrorsLeaveObject ==
    /\ (pc = "done" /\ (Returned(400) \/ Returned(500))) => (s3 = s3Before /\ putCalls = 0)
    /\ s3 = IF lastOk = <<>> THEN NoObject
            ELSE [exists |-> TRUE, Body |-> json_lines(lastOk),
                  ContentType |-> "application/json"]

\* an invocation in which every date failed returned 500 and an earlier batch is
\* still at the key
C10_Witness ==
    /\ pc = "done"
    /\ Returned(500)
    /\ nFailed = 5
    /\ s3.exists
    /\ s3 = s3Before

====
